---------------------------- MODULE Spec2Model ----------------------------
(***************************************************************************)
(* A model of the cpu-raytracer rendering core:                            *)
(*   - hit_record::set_face_normal and hittable_list (hittable.h,          *)
(*     hittable_list.h),                                                   *)
(*   - the three materials' scatter functions (material.h),                *)
(*   - camera::render / initialize / get_ray / ray_color (camera.h),       *)
(*   - the scene construction and the single render call of main.          *)
(*                                                                         *)
(* Doubles are modelled as exact rationals [n, d] in lowest terms, vectors *)
(* as triples of rationals.  Directions are taken from a lattice of        *)
(* Pythagorean vectors so that lengths are rational and unit_vector is     *)
(* exact.  Random draws are nondeterministic choices from small sets.      *)
(***************************************************************************)
EXTENDS Integers, Sequences, FiniteSets, TLC

VARIABLES
    m,              \* material / hit_record unit: the last call and its results
    objects,        \* hittable_list::objects
    lcall,          \* hittable_list unit: the last hit() call and its results
    cam,            \* the camera object: public parameters and derived state
    pc,             \* control position inside main / camera::render
    j, i, sample,   \* the loop variables of camera::render
    pixel_color,    \* the accumulator of the pixel being sampled
    out,            \* what render has written to std::cout, pixel by pixel
    stack,          \* the ray_color call stack (one frame per invocation)
    retval,         \* the value the last finished ray_color invocation returned
    trace           \* observation counters of the calls made so far

mvars == <<m>>
lvars == <<objects, lcall>>
cvars == <<cam, pc, j, i, sample, pixel_color, out, stack, retval, trace>>
vars == <<m, objects, lcall, cam, pc, j, i, sample, pixel_color, out, stack, retval, trace>>

---------------------------------------------------------------------------
(* Exact rational arithmetic standing for double arithmetic.               *)

Abs(a) == IF a < 0 THEN -a ELSE a

RECURSIVE GCD(_, _)
GCD(a, b) == IF b = 0 THEN a ELSE GCD(b, a % b)

\* the rational n/d (d > 0) in lowest terms
Q(n, d) ==
    LET g == GCD(Abs(n), d)
    IN [n |-> n \div g, d |-> d \div g]

QInt(k) == [n |-> k, d |-> 1]

QAdd(a, b) ==
    LET g == GCD(a.d, b.d)
        l == (a.d \div g) * b.d
    IN Q(a.n * (l \div a.d) + b.n * (l \div b.d), l)

QNeg(a) == [n |-> -a.n, d |-> a.d]

QSub(a, b) == QAdd(a, QNeg(b))

QMul(a, b) ==
    LET g1 == GCD(Abs(a.n), b.d)
        g2 == GCD(Abs(b.n), a.d)
    IN Q((a.n \div g1) * (b.n \div g2), (a.d \div g2) * (b.d \div g1))

\* a / b for b # 0
QDiv(a, b) ==
    IF b.n > 0 THEN QMul(a, [n |-> b.d, d |-> b.n])
    ELSE QMul(a, [n |-> -b.d, d |-> -b.n])

QLt(a, b) == a.n * b.d < b.n * a.d

QLe(a, b) == a.n * b.d <= b.n * a.d

QMin(a, b) == IF QLt(b, a) THEN b ELSE a

\* the exact square root of a natural number that is a perfect square
ISqrt(k) == CHOOSE s \in 0..k : s * s = k

IsSquare(k) == \E s \in 0..k : s * s = k

\* sqrt of a rational whose numerator and denominator are perfect squares
QSqrt(a) == [n |-> ISqrt(a.n), d |-> ISqrt(a.d)]

---------------------------------------------------------------------------
(* vec3 / color: triples of rationals.                                     *)

Vec(x, y, z) == <<x, y, z>>

VInt(x, y, z) == <<QInt(x), QInt(y), QInt(z)>>

VAdd(a, b) == <<QAdd(a[1], b[1]), QAdd(a[2], b[2]), QAdd(a[3], b[3])>>

VNeg(a) == <<QNeg(a[1]), QNeg(a[2]), QNeg(a[3])>>

VSub(a, b) == VAdd(a, VNeg(b))

\* scalar * vector
VScale(t, a) == <<QMul(t, a[1]), QMul(t, a[2]), QMul(t, a[3])>>

\* component-wise product (color * color)
VMul(a, b) == <<QMul(a[1], b[1]), QMul(a[2], b[2]), QMul(a[3], b[3])>>

dot(a, b) == QAdd(QAdd(QMul(a[1], b[1]), QMul(a[2], b[2])), QMul(a[3], b[3]))

length_squared(a) == dot(a, a)

\* defined on the lattice directions, whose squared length is a perfect square
length(a) == QSqrt(length_squared(a))

unit_vector(a) == VScale(QDiv(QInt(1), length(a)), a)

\* v - 2*dot(v,n)*n
reflect(v, n) == VSub(v, VScale(QMul(QInt(2), dot(v, n)), n))

\* 1e-8, the threshold of vec3::near_zero
NearZeroInv == 100000000

near_zero(a) == \A k \in 1..3 : Abs(a[k].n) * NearZeroInv < a[k].d

\* the refracted direction has an irrational component (a square root of a
\* non-square): it is kept as the term refract(uv, n, etai_over_etat)
refract(uv, n, etai_over_etat) ==
    [refract |-> <<uv, n, etai_over_etat>>]

ZeroVec == VInt(0, 0, 0)

Black == VInt(0, 0, 0)

White == VInt(1, 1, 1)

ray(origin, direction) == [orig |-> origin, dir |-> direction]

---------------------------------------------------------------------------
(* Input domains of the unit checks.                                       *)

\* integer vectors of integer length: the axes and the 3-4-5 triangle
BaseTriples == {<<1, 0, 0>>, <<3, 4, 0>>}

\* the base triples and their mirror images in the x-y plane
LatticeTriples ==
    {<<sx * t[p[1]], sy * t[p[2]], 0>> :
        t \in BaseTriples, p \in {<<1, 2>>, <<2, 1>>}, sx \in {-1, 1}, sy \in {-1, 1}}

\* largest integer factor a ray direction is stretched by
MaxDirScale == 2

\* ray directions: not normalised, as get_ray and the scatter functions leave them
Directions ==
    {VInt(k * t[1], k * t[2], k * t[3]) : t \in LatticeTriples, k \in 1..MaxDirScale}

\* unit vectors: outward normals and the values of random_unit_vector()
UnitVectors == {unit_vector(VInt(t[1], t[2], t[3])) : t \in LatticeTriples}

\* values of random_double(), in [0, 1)
RandomDoubles == {Q(0, 1), Q(1, 4), Q(3, 4)}

Albedos == {Vec(Q(1, 2), Q(1, 2), Q(1, 2)), Vec(Q(4, 5), Q(3, 5), Q(1, 5))}

FuzzArgs == {Q(0, 1), Q(1, 2), Q(3, 2)}

RefractionIndices == {Q(3, 2), Q(6, 5)}

Point0 == VInt(0, 0, 0)

---------------------------------------------------------------------------
(* hit_record and the materials.                                           *)

\* the null shared_ptr<material>
NullMaterial == [kind |-> "null"]

\* a hit_record before set_face_normal has run on it; t is kept on an integer grid
hit_record(p, t, mat) ==
    [point |-> p, normal |-> ZeroVec, t |-> t, mat |-> mat, front_face |-> FALSE]

\* plausible slip: the normal is flipped on the wrong side
set_face_normal_flipped(rec, r, outward_normal) ==
    LET front_face == QLt(dot(r.dir, outward_normal), QInt(0))
    IN [rec EXCEPT !.front_face = front_face,
                   !.normal = IF front_face THEN VNeg(outward_normal) ELSE outward_normal]

set_face_normal(rec, r, outward_normal) ==
    LET front_face == QLt(dot(r.dir, outward_normal), QInt(0))
    IN [rec EXCEPT !.front_face = front_face,
                   !.normal = IF front_face THEN outward_normal ELSE VNeg(outward_normal)]

lambertian(a) == [kind |-> "lambertian", albedo |-> a]

metal(a, f) == [kind |-> "metal", albedo |-> a, fuzz |-> IF QLt(f, QInt(1)) THEN f ELSE QInt(1)]

dielectric(index_of_refraction) == [kind |-> "dielectric", ir |-> index_of_refraction]

\* plausible slip: the degenerate direction is not caught
lambertian_scatter_nofallback(mat, r_in, hit, ruv) ==
    [ok |-> TRUE, attenuation |-> mat.albedo,
     scattered |-> ray(hit.point, VAdd(hit.normal, ruv))]

\* ruv is the value random_unit_vector() returns
lambertian_scatter(mat, r_in, hit, ruv) ==
    LET sum == VAdd(hit.normal, ruv)
        scatter_direction == IF near_zero(sum) THEN hit.normal ELSE sum
    IN [ok |-> TRUE, attenuation |-> mat.albedo,
        scattered |-> ray(hit.point, scatter_direction)]

\* plausible slip: a grazing direction (dot = 0) counts as scattered
metal_scatter_grazing(mat, r_in, hit, ruv) ==
    LET reflection == reflect(unit_vector(r_in.dir), hit.normal)
        scattered == ray(hit.point, VAdd(reflection, VScale(mat.fuzz, ruv)))
    IN [ok |-> QLe(QInt(0), dot(scattered.dir, hit.normal)),
        attenuation |-> mat.albedo, scattered |-> scattered]

\* ruv is the value random_unit_vector() returns
metal_scatter(mat, r_in, hit, ruv) ==
    LET reflection == reflect(unit_vector(r_in.dir), hit.normal)
        scattered == ray(hit.point, VAdd(reflection, VScale(mat.fuzz, ruv)))
    IN [ok |-> QLt(QInt(0), dot(scattered.dir, hit.normal)),
        attenuation |-> mat.albedo, scattered |-> scattered]

QPow5(a) == QMul(QMul(QMul(a, a), QMul(a, a)), a)

\* Schlick's approximation
reflectance(cosine, ref_idx) ==
    LET r0 == QDiv(QSub(QInt(1), ref_idx), QAdd(QInt(1), ref_idx))
        r0sq == QMul(r0, r0)
    IN QAdd(r0sq, QMul(QSub(QInt(1), r0sq), QPow5(QSub(QInt(1), cosine))))

\* refraction_ratio * sqrt(1 - cos_theta^2) > 1.0, decided without the root:
\* for a positive ratio and a non-negative radicand it is ratio^2 * (1 - cos^2) > 1;
\* a negative radicand gives NaN and a non-positive ratio a non-positive product,
\* and both compare false
cannot_refract(refraction_ratio, cos_theta) ==
    LET radicand == QSub(QInt(1), QMul(cos_theta, cos_theta))
    IN /\ refraction_ratio.n > 0
       /\ radicand.n >= 0
       /\ QLt(QInt(1), QMul(QMul(refraction_ratio, refraction_ratio), radicand))

\* which branch dielectric::scatter takes
dielectric_reflects(mat, r_in, hit, rnd) ==
    LET refraction_ratio == IF hit.front_face THEN QDiv(QInt(1), mat.ir) ELSE mat.ir
        unit_direction == unit_vector(r_in.dir)
        cos_theta == QMin(dot(VNeg(unit_direction), hit.normal), QInt(1))
    IN \/ cannot_refract(refraction_ratio, cos_theta)
       \/ QLt(rnd, reflectance(cos_theta, refraction_ratio))

\* plausible slip: total internal reflection treated as absorption
dielectric_scatter_absorbing(mat, r_in, hit, rnd) ==
    LET refraction_ratio == IF hit.front_face THEN QDiv(QInt(1), mat.ir) ELSE mat.ir
        unit_direction == unit_vector(r_in.dir)
        cos_theta == QMin(dot(VNeg(unit_direction), hit.normal), QInt(1))
    IN [ok |-> ~cannot_refract(refraction_ratio, cos_theta),
        attenuation |-> White,
        scattered |-> ray(hit.point, reflect(unit_direction, hit.normal))]

\* rnd is the value random_double() returns
dielectric_scatter(mat, r_in, hit, rnd) ==
    LET refraction_ratio == IF hit.front_face THEN QDiv(QInt(1), mat.ir) ELSE mat.ir
        unit_direction == unit_vector(r_in.dir)
        direction ==
            IF dielectric_reflects(mat, r_in, hit, rnd)
            THEN reflect(unit_direction, hit.normal)
            ELSE refract(unit_direction, hit.normal, refraction_ratio)
    IN [ok |-> TRUE, attenuation |-> White, scattered |-> ray(hit.point, direction)]

---------------------------------------------------------------------------
(* Unit specification of hit_record and the materials: one call at a time  *)
(* on drawn inputs; m holds the call and what it returned.                 *)

MIdle == [op |-> "idle"]

\* the other units' variables, which the material unit never touches
MFrame == UNCHANGED <<objects, lcall, cam, pc, j, i, sample, pixel_color, out, stack, retval, trace>>

\* the values the camera variables hold while a unit specification runs
CameraParked ==
    /\ cam = [state |-> "parked"]
    /\ pc = "parked"
    /\ j = 0 /\ i = 0 /\ sample = 0
    /\ pixel_color = Black
    /\ out = <<>>
    /\ stack = <<>>
    /\ retval = Black
    /\ trace = [calls |-> 0]

\* the values the hittable_list variables hold while another specification runs
ListParked ==
    /\ objects = <<>>
    /\ lcall = [op |-> "idle"]

MInit ==
    /\ m = MIdle
    /\ ListParked
    /\ CameraParked

\* the record a sphere hands to a material: hit by ray r with outward normal n
HitBy(r, n, mat) == set_face_normal(hit_record(Point0, 1, mat), r, n)

CallSetFaceNormal ==
    /\ m = MIdle
    /\ \E d \in Directions \cup {ZeroVec}, n \in UnitVectors :
         LET r == ray(Point0, d)
         IN m' = [op |-> "set_face_normal", r |-> r, outward_normal |-> n,
                  rec |-> set_face_normal(hit_record(Point0, 1, NullMaterial), r, n)]
    /\ MFrame

CallLambertianScatter ==
    /\ m = MIdle
    /\ \E d \in Directions, n \in UnitVectors, a \in Albedos, ruv \in UnitVectors :
         LET mat == lambertian(a)
             r == ray(Point0, d)
             hit == HitBy(r, n, mat)
         IN m' = [op |-> "lambertian", mat |-> mat, r_in |-> r, hit |-> hit,
                  ruv |-> ruv, ret |-> lambertian_scatter(mat, r, hit, ruv)]
    /\ MFrame

CallMetalScatter ==
    /\ m = MIdle
    /\ \E d \in Directions, n \in UnitVectors, a \in Albedos, f \in FuzzArgs,
          ruv \in UnitVectors :
         LET mat == metal(a, f)
             r == ray(Point0, d)
             hit == HitBy(r, n, mat)
         IN m' = [op |-> "metal", mat |-> mat, r_in |-> r, hit |-> hit,
                  ruv |-> ruv, ret |-> metal_scatter(mat, r, hit, ruv)]
    /\ MFrame

CallDielectricScatter ==
    /\ m = MIdle
    /\ \E d \in Directions, n \in UnitVectors, ir \in RefractionIndices,
          rnd \in RandomDoubles :
         LET mat == dielectric(ir)
             r == ray(Point0, d)
             hit == HitBy(r, n, mat)
         IN m' = [op |-> "dielectric", mat |-> mat, r_in |-> r, hit |-> hit,
                  rnd |-> rnd, reflects |-> dielectric_reflects(mat, r, hit, rnd),
                  ret |-> dielectric_scatter(mat, r, hit, rnd)]
    /\ MFrame

MReturn ==
    /\ m # MIdle
    /\ m' = MIdle
    /\ MFrame

MNext ==
    \/ CallSetFaceNormal
    \/ CallLambertianScatter
    \/ CallMetalScatter
    \/ CallDielectricScatter
    \/ MReturn

MaterialSpec == MInit /\ [][MNext]_vars

---------------------------------------------------------------------------
(* Claims about hit_record and the materials, checked under MaterialSpec.  *)

\* C7: after set_face_normal(r, outward_normal), front_face is
\* dot(r.direction, outward_normal) < 0, the stored normal is outward_normal on
\* the front face and its negation otherwise, and the stored normal never
\* points along the ray: dot(r.direction, normal) <= 0.
C7_FaceNormalAgainstRay ==
    m.op = "set_face_normal" =>
        LET d == dot(m.r.dir, m.outward_normal)
        IN /\ m.rec.front_face = (d.n < 0)
           /\ m.rec.front_face => m.rec.normal = m.outward_normal
           /\ ~m.rec.front_face => m.rec.normal = VNeg(m.outward_normal)
           /\ QLe(dot(m.r.dir, m.rec.normal), QInt(0))

\* C7 witness: a ray that leaves through the surface (back face), so that the
\* normal had to be flipped
C7_Witness ==
    /\ m.op = "set_face_normal"
    /\ dot(m.r.dir, m.outward_normal).n > 0
    /\ ~m.rec.front_face
    /\ m.rec.normal # m.outward_normal

\* C8: metal::scatter returns true exactly when the scattered (reflected plus
\* fuzzed) direction has a positive dot product with the hit normal, so a dot
\* product <= 0 is reported as absorption; the attenuation is the albedo
\* either way.
C8_MetalAbsorbsUnlessOutward ==
    m.op = "metal" =>
        LET d == dot(m.ret.scattered.dir, m.hit.normal)
        IN /\ d.n <= 0 => m.ret.ok = FALSE
           /\ m.ret.ok = TRUE => d.n > 0
           /\ m.ret.attenuation = m.mat.albedo

\* C8 witness: the fuzzed reflection exactly grazes the surface (dot = 0) and
\* the ray is absorbed with the albedo still reported
C8_Witness ==
    /\ m.op = "metal"
    /\ dot(m.ret.scattered.dir, m.hit.normal).n = 0
    /\ m.mat.fuzz.n > 0
    /\ m.ret.ok = FALSE
    /\ m.ret.attenuation = m.mat.albedo

\* C9: dielectric::scatter returns true on the reflect branch and on the
\* refract branch alike, and the attenuation is exactly (1, 1, 1).
C9_DielectricAlwaysScatters ==
    m.op = "dielectric" =>
        /\ m.ret.ok = TRUE
        /\ m.ret.attenuation = VInt(1, 1, 1)

\* C9 witness: total internal reflection (the ray is inside the denser medium
\* and refraction is impossible), which still scatters
C9_Witness ==
    /\ m.op = "dielectric"
    /\ ~m.hit.front_face
    /\ m.reflects
    /\ m.ret.scattered.dir = reflect(unit_vector(m.r_in.dir), m.hit.normal)
    /\ m.ret.ok = TRUE

\* C10: lambertian::scatter never hands back a zero-length direction: when
\* normal + random_unit_vector is near zero the direction is the hit normal
\* itself, otherwise it is the sum; it returns true with the albedo.
C10_LambertianNeverDegenerate ==
    m.op = "lambertian" =>
        LET sum == VAdd(m.hit.normal, m.ruv)
        IN /\ m.ret.scattered.dir # ZeroVec
           /\ length_squared(m.ret.scattered.dir).n > 0
           /\ near_zero(sum) => m.ret.scattered.dir = m.hit.normal
           /\ ~near_zero(sum) => m.ret.scattered.dir = sum
           /\ m.ret.ok = TRUE
           /\ m.ret.attenuation = m.mat.albedo

\* C10 witness: the random unit vector cancels the normal exactly and the
\* fallback is taken
C10_Witness ==
    /\ m.op = "lambertian"
    /\ m.ruv = VNeg(m.hit.normal)
    /\ m.ret.scattered.dir = m.hit.normal

---------------------------------------------------------------------------
(* hittable and hittable_list.                                             *)
(* A ray meets each sphere in the roots of a quadratic.  Instead of        *)
(* solving it, the ray carries, for every object, the roots it has with    *)
(* that object: r.roots[object.id] is <<>> (no real root) or <<t1, t2>>    *)
(* with t1 <= t2, on an integer grid of t values.                          *)

\* most objects in the world
MaxObjects == 3

\* the largest finite t on the grid
MaxT == 2

\* infinity of rtweekend.h: above every t on the grid
Infinity == MaxT + 1

\* no real root, or the two roots in ascending order (equal when tangent)
RootSeqs == {<<>>} \cup {rt \in (0..MaxT) \X (0..MaxT) : rt[1] <= rt[2]}

interval(min, max) == [min |-> min, max |-> max]

surrounds(ray_t, x) == ray_t.min < x /\ x < ray_t.max

\* the contents of a default-constructed hit_record (hit_record temp_rec;)
NoRecord == hit_record(Point0, 0, NullMaterial)

sphere(id, mat) == [id |-> id, mat |-> mat]

\* the smaller root if the interval surrounds it, else the larger root if the
\* interval surrounds it, else no hit; rec is written only on a hit
sphere_hit(object, r, ray_t, rec) ==
    LET roots == r.roots[object.id]
    IN IF roots = <<>> THEN [ok |-> FALSE, rec |-> rec]
       ELSE IF surrounds(ray_t, roots[1])
            THEN [ok |-> TRUE, rec |-> hit_record(Point0, roots[1], object.mat)]
       ELSE IF surrounds(ray_t, roots[2])
            THEN [ok |-> TRUE, rec |-> hit_record(Point0, roots[2], object.mat)]
       ELSE [ok |-> FALSE, rec |-> rec]

\* plausible slip: every object is tested against the caller's whole interval
hit_step_noshrink(object, r, ray_t, st) ==
    LET res == sphere_hit(object, r, interval(ray_t.min, ray_t.max), st.temp_rec)
    IN IF res.ok
       THEN [hit_anything |-> TRUE, closest_so_far |-> res.rec.t,
             rec |-> res.rec, temp_rec |-> res.rec]
       ELSE [st EXCEPT !.temp_rec = res.rec]

\* the body of the loop of hittable_list::hit, on the locals st
hit_step(object, r, ray_t, st) ==
    LET res == sphere_hit(object, r, interval(ray_t.min, st.closest_so_far), st.temp_rec)
    IN IF res.ok
       THEN [hit_anything |-> TRUE, closest_so_far |-> res.rec.t,
             rec |-> res.rec, temp_rec |-> res.rec]
       ELSE [st EXCEPT !.temp_rec = res.rec]

RECURSIVE hit_loop(_, _, _, _, _)
hit_loop(objs, k, r, ray_t, st) ==
    IF k > Len(objs) THEN st
    ELSE hit_loop(objs, k + 1, r, ray_t, hit_step(objs[k], r, ray_t, st))

\* hittable_list::hit: rec is the caller's record, written only on a hit
hittable_list_hit(objs, r, ray_t, rec) ==
    LET st0 == [hit_anything |-> FALSE, closest_so_far |-> ray_t.max,
                rec |-> rec, temp_rec |-> NoRecord]
        st == hit_loop(objs, 1, r, ray_t, st0)
    IN [ok |-> st.hit_anything, rec |-> st.rec]

---------------------------------------------------------------------------
(* Unit specification of hittable_list: the list is built with add and     *)
(* clear, and hit is called on it with drawn rays and intervals.           *)

\* the materials the objects of the list share
ListMaterials == {lambertian(Vec(Q(1, 2), Q(1, 2), Q(1, 2))), dielectric(Q(3, 2))}

\* the intervals hit is called with: ray_color's, and one cut at both ends
ListIntervals == {interval(0, Infinity), interval(1, MaxT)}

LIdle == [op |-> "idle"]

LFrame == UNCHANGED <<m, cam, pc, j, i, sample, pixel_color, out, stack, retval, trace>>

LInit ==
    /\ objects = <<>>
    /\ lcall = LIdle
    /\ m = MIdle
    /\ CameraParked

add ==
    /\ lcall = LIdle
    /\ Len(objects) < MaxObjects
    /\ \E mat \in ListMaterials :
         objects' = Append(objects, sphere(Len(objects) + 1, mat))
    /\ UNCHANGED lcall
    /\ LFrame

clear ==
    /\ lcall = LIdle
    /\ objects # <<>>
    /\ objects' = <<>>
    /\ UNCHANGED lcall
    /\ LFrame

CallHit ==
    /\ lcall = LIdle
    /\ \E roots \in [1..Len(objects) -> RootSeqs], ray_t \in ListIntervals :
         LET r == [roots |-> roots]
         IN lcall' = [op |-> "hit", r |-> r, ray_t |-> ray_t,
                      ret |-> hittable_list_hit(objects, r, ray_t, NoRecord)]
    /\ UNCHANGED objects
    /\ LFrame

LReturn ==
    /\ lcall # LIdle
    /\ lcall' = LIdle
    /\ UNCHANGED objects
    /\ LFrame

LNext ==
    \/ add
    \/ clear
    \/ CallHit
    \/ LReturn

ListSpec == LInit /\ [][LNext]_vars

---------------------------------------------------------------------------
(* Claims about hittable_list::hit, checked under ListSpec.                *)

\* object k of the list tested on its own against the call's interval
Alone(k) == sphere_hit(objects[k], lcall.r, lcall.ray_t, NoRecord)

\* the objects that report a hit on their own
AloneHits == {k \in 1..Len(objects) : Alone(k).ok}

\* C1: hittable_list::hit returns true exactly when some member, tested on
\* its own against the same interval, reports a hit; the record it returns
\* is then the record of a member, and its t is <= the t of every member's
\* own hit.
C1_ListHitIsNearestMemberHit ==
    lcall.op = "hit" =>
        /\ lcall.ret.ok = (AloneHits # {})
        /\ lcall.ret.ok =>
             /\ \E k \in AloneHits : lcall.ret.rec = Alone(k).rec
             /\ \A k \in AloneHits : lcall.ret.rec.t <= Alone(k).rec.t
        /\ ~lcall.ret.ok => lcall.ret.rec = NoRecord

\* C1 witness: three members hit, the nearest is neither the first nor the
\* last tested, and a member after it is farther away
C1_Witness ==
    /\ lcall.op = "hit"
    /\ Len(objects) = 3
    /\ AloneHits = {1, 2, 3}
    /\ Alone(2).rec.t < Alone(1).rec.t
    /\ Alone(2).rec.t < Alone(3).rec.t
    /\ lcall.ret.rec = Alone(2).rec

\* C2: when several members hit at the same nearest t, the record returned
\* is that of the first of them in insertion order.
C2_FirstTestedWinsTies ==
    (lcall.op = "hit" /\ lcall.ret.ok) =>
        LET nearest == {k \in AloneHits : \A k2 \in AloneHits : Alone(k).rec.t <= Alone(k2).rec.t}
            first == CHOOSE k \in nearest : \A k2 \in nearest : k <= k2
        IN lcall.ret.rec = Alone(first).rec

\* C2 witness: two members with different materials hit at the same nearest
\* t and the record names the material of the one added first
C2_Witness ==
    /\ lcall.op = "hit"
    /\ lcall.ret.ok
    /\ \E k1, k2 \in AloneHits :
         /\ k1 < k2
         /\ Alone(k1).rec.t = Alone(k2).rec.t
         /\ \A k \in AloneHits : Alone(k1).rec.t <= Alone(k).rec.t
         /\ objects[k1].mat # objects[k2].mat
         /\ lcall.ret.rec.mat = objects[k1].mat

---------------------------------------------------------------------------
(* camera.                                                                 *)

cross(a, b) ==
    <<QSub(QMul(a[2], b[3]), QMul(a[3], b[2])),
      QSub(QMul(a[3], b[1]), QMul(a[1], b[3])),
      QSub(QMul(a[1], b[2]), QMul(a[2], b[1]))>>

\* tan(degrees_to_radians(deg) / 2) at the angles where it is rational
TanHalfDegrees(deg) == CASE deg = 0 -> QInt(0) [] deg = 90 -> QInt(1)

\* the private members before initialize has run: indeterminate; the
\* indeterminate image_height is the value garbage
Uninitialized(garbage) ==
    [set |-> FALSE, image_height |-> garbage, center |-> ZeroVec,
     pixel00_loc |-> ZeroVec, pixel_delta_u |-> ZeroVec, pixel_delta_v |-> ZeroVec,
     u |-> ZeroVec, v |-> ZeroVec, w |-> ZeroVec,
     defocus_disk_u |-> ZeroVec, defocus_disk_v |-> ZeroVec]

\* the camera as declared, with the default member initializers for the view
camera(aspect_ratio, image_width, samples_per_pixel, max_depth, defocus_angle, garbage) ==
    [aspect_ratio |-> aspect_ratio, image_width |-> image_width,
     samples_per_pixel |-> samples_per_pixel, max_depth |-> max_depth,
     vfov |-> 90,
     lookfrom |-> VInt(0, 0, -1), lookat |-> VInt(0, 0, 0), vup |-> VInt(0, 1, 0),
     defocus_angle |-> defocus_angle, focus_dist |-> QInt(10),
     derived |-> Uninitialized(garbage)]

\* plausible slip: render forgets to call initialize
initialize_skipped(c) == c

\* camera::initialize: the derived members, from the public ones
initialize(c) ==
    LET quotient == (c.image_width * c.aspect_ratio.d) \div c.aspect_ratio.n
        image_height == IF quotient < 1 THEN 1 ELSE quotient
        center == c.lookfrom
        h == TanHalfDegrees(c.vfov)
        viewport_height == QMul(QMul(QInt(2), h), c.focus_dist)
        viewport_width == QMul(viewport_height, Q(c.image_width, image_height))
        w == unit_vector(VSub(c.lookfrom, c.lookat))
        u == unit_vector(cross(c.vup, w))
        v == cross(w, u)
        viewport_u == VScale(viewport_width, u)
        viewport_v == VScale(viewport_height, VNeg(v))
        pixel_delta_u == VScale(Q(1, c.image_width), viewport_u)
        pixel_delta_v == VScale(Q(1, image_height), viewport_v)
        viewport_upper_left ==
            VSub(VSub(VSub(center, VScale(c.focus_dist, w)),
                      VScale(Q(1, 2), viewport_u)),
                 VScale(Q(1, 2), viewport_v))
        defocus_radius == QMul(c.focus_dist, TanHalfDegrees(c.defocus_angle))
    IN [c EXCEPT !.derived =
          [set |-> TRUE, image_height |-> image_height, center |-> center,
           pixel00_loc |-> VAdd(viewport_upper_left,
                                VScale(Q(1, 2), VAdd(pixel_delta_u, pixel_delta_v))),
           pixel_delta_u |-> pixel_delta_u, pixel_delta_v |-> pixel_delta_v,
           u |-> u, v |-> v, w |-> w,
           defocus_disk_u |-> VScale(defocus_radius, u),
           defocus_disk_v |-> VScale(defocus_radius, v)]]

\* p is the value random_in_unit_disk() returns
defocus_disk_sample(c, p) ==
    VAdd(VAdd(c.derived.center, VScale(p[1], c.derived.defocus_disk_u)),
         VScale(p[2], c.derived.defocus_disk_v))

\* camera::get_ray.  The origin is computed as the code does.  The direction,
\* pixel_sample - ray_origin with a random pixel_sample, is the drawn value
\* direction: a lattice direction, so that its length stays rational
get_ray(c, col, row, p, direction) ==
    LET ray_origin == IF c.defocus_angle <= 0 THEN c.derived.center
                      ELSE defocus_disk_sample(c, p)
    IN ray(ray_origin, direction)

\* the background of ray_color: white blended with sky blue by direction.y
sky_gradient(r) ==
    LET unit_direction == unit_vector(r.dir)
        a == QMul(Q(1, 2), QAdd(unit_direction[2], QInt(1)))
    IN VAdd(VScale(QSub(QInt(1), a), Vec(QInt(1), QInt(1), QInt(1))),
            VScale(a, Vec(Q(1, 2), Q(7, 10), QInt(1))))

\* plausible slip: the bounce budget is only exhausted below zero
depth_exhausted_late(depth) == depth < 0

\* the test that opens ray_color
depth_exhausted(depth) == depth <= 0

\* plausible slip: the recursive call passes the depth on unchanged
recursive_depth_same(depth) == depth

\* the depth argument of the recursive call
recursive_depth(depth) == depth - 1

\* plausible slip: the column loop runs one step too far
more_columns_inclusive(col, c) == col <= c.image_width

\* the test of the loop over i
more_columns(col, c) == col < c.image_width

\* the test of the loop over j
more_scanlines(row, c) == row < c.derived.image_height

\* the test of the loop over sample
more_samples(k, c) == k < c.samples_per_pixel

---------------------------------------------------------------------------
(* The program: main builds the world, sets the camera up and calls        *)
(* cam.render(world) once.  render and ray_color advance one step per      *)
(* action; the ray_color recursion is the explicit call stack.             *)

\* widest image
MaxWidth == 2

\* most samples per pixel
MaxSamples == 2

\* largest max_depth of a whole render
MaxRenderDepth == 1

\* largest depth of a single ray_color call followed on its own
MaxDepth == 3

\* the default of camera.h and the ratio main sets
AspectRatios == {Q(1, 1), Q(16, 9)}

\* the default of camera.h
DefocusAngles == {0}

\* values of random_in_unit_disk()
DiskSamples == {<<Q(1, 2), Q(1, 4)>>}

\* values an indeterminate int may hold
GarbageInts == {0, 3}

\* the directions rays take in the program model
RayDirections == {VInt(0, 2, 0), VInt(3, -4, 0)}

\* the ground, the metal ball and the glass ball of main
MainWorld ==
    <<sphere(1, lambertian(Vec(Q(1, 2), Q(1, 2), Q(1, 2)))),
      sphere(2, metal(Vec(Q(2, 5), Q(7, 10), Q(1, 10)), Q(0, 1))),
      sphere(3, dielectric(Q(3, 2)))>>

Worlds == {<<>>, MainWorld}

\* what world.hit(r, interval(0.001, infinity), rec) can return for some ray:
\* 0 on the grid is every t up to 0.001
HitOutcomes(world) ==
    {hittable_list_hit(world, [roots |-> roots], interval(0, Infinity), NoRecord) :
        roots \in [1..Len(world) -> RootSeqs]}

HitTable == [world \in Worlds |-> HitOutcomes(world)]

\* what mat->scatter can return through the material interface, by the kind
\* of material: only metal absorbs, glass attenuates by white, the others by
\* their albedo; the scattered direction is any ray direction
ScatterOutcomes(mat, hit) ==
    {[ok |-> ok,
      attenuation |-> IF mat.kind = "dielectric" THEN White ELSE mat.albedo,
      scattered |-> ray(hit.point, d)] :
        ok \in IF mat.kind = "metal" THEN BOOLEAN ELSE {TRUE}, d \in RayDirections}

\* the background of ray_color for every direction a ray can take
SkyColor == [d \in RayDirections |-> sky_gradient(ray(ZeroVec, d))]

\* path: the attenuations of the scattering hits of the outermost call, in
\* order; ending: how the last invocation of the path ended; camera_ray and
\* last_ray: the ray of the outermost and of the last invocation
NoTrace ==
    [inits |-> 0, rays |-> 0, ray_ij |-> <<0, 0>>, evals |-> 0,
     calls |-> 0, hits |-> 0, scatters |-> 0, top_depth |-> 0,
     path |-> <<>>, ending |-> "none",
     camera_ray |-> ray(ZeroVec, ZeroVec), last_ray |-> ray(ZeroVec, ZeroVec)]

CFrame == UNCHANGED <<m, lcall, objects>>

CInit ==
    /\ m = MIdle
    /\ lcall = LIdle
    /\ objects \in Worlds
    /\ \E ar \in AspectRatios, width \in 1..MaxWidth, spp \in 0..MaxSamples,
          depth \in -1..MaxRenderDepth, da \in DefocusAngles, g \in GarbageInts :
         cam = camera(ar, width, spp, depth, da, g)
    /\ pc = "start"
    /\ j = 0 /\ i = 0 /\ sample = 0
    /\ pixel_color = Black
    /\ out = <<>>
    /\ stack = <<>>
    /\ retval = Black
    /\ trace = NoTrace

\* render: initialize();
RenderInitialize ==
    /\ pc = "start"
    /\ cam' = initialize(cam)
    /\ trace' = [trace EXCEPT !.inits = @ + 1]
    /\ pc' = "header"
    /\ UNCHANGED <<j, i, sample, pixel_color, out, stack, retval>>
    /\ CFrame

\* render: the P3 header is written and the loop over j starts
RenderHeader ==
    /\ pc = "header"
    /\ j' = 0
    /\ pc' = "scanline"
    /\ UNCHANGED <<cam, i, sample, pixel_color, out, stack, retval, trace>>
    /\ CFrame

\* render: the loop over j goes on: the loop over i starts
ScanlineBegin ==
    /\ pc = "scanline"
    /\ more_scanlines(j, cam)
    /\ i' = 0
    /\ pc' = "pixel"
    /\ UNCHANGED <<cam, j, sample, pixel_color, out, stack, retval, trace>>
    /\ CFrame

\* render: the loop over j ends
RenderDone ==
    /\ pc = "scanline"
    /\ ~more_scanlines(j, cam)
    /\ pc' = "done"
    /\ UNCHANGED <<cam, j, i, sample, pixel_color, out, stack, retval, trace>>
    /\ CFrame

\* render: the loop over i goes on: pixel_color(0,0,0) and the loop over sample starts
PixelBegin ==
    /\ pc = "pixel"
    /\ more_columns(i, cam)
    /\ pixel_color' = Black
    /\ sample' = 0
    /\ trace' = [trace EXCEPT !.evals = 0]
    /\ pc' = "sample"
    /\ UNCHANGED <<cam, j, i, out, stack, retval>>
    /\ CFrame

\* render: the loop over i ends: ++j
ScanlineEnd ==
    /\ pc = "pixel"
    /\ ~more_columns(i, cam)
    /\ j' = j + 1
    /\ pc' = "scanline"
    /\ UNCHANGED <<cam, i, sample, pixel_color, out, stack, retval, trace>>
    /\ CFrame

\* render: ray r = get_ray(i, j); and the call ray_color(r, max_depth, world)
SampleBegin ==
    /\ pc = "sample"
    /\ more_samples(sample, cam)
    /\ \E p \in DiskSamples, d \in RayDirections :
         stack' = <<[r |-> get_ray(cam, i, j, p, d), depth |-> cam.max_depth,
                     attenuation |-> Black]>>
    /\ trace' = [trace EXCEPT !.rays = @ + 1, !.ray_ij = <<i, j>>, !.calls = 1,
                              !.hits = 0, !.scatters = 0, !.top_depth = cam.max_depth,
                              !.path = <<>>, !.ending = "none",
                              !.camera_ray = stack'[1].r, !.last_ray = stack'[1].r]
    /\ retval' = Black
    /\ pc' = "ray_color"
    /\ UNCHANGED <<cam, j, i, sample, pixel_color, out>>
    /\ CFrame

\* render: the loop over sample ends: write_color(std::cout, pixel_color,
\* samples_per_pixel); ++i
WritePixel ==
    /\ pc = "sample"
    /\ ~more_samples(sample, cam)
    /\ out' = Append(out, [i |-> i, j |-> j, samples |-> cam.samples_per_pixel,
                           evals |-> trace.evals])
    /\ i' = i + 1
    /\ pc' = "pixel"
    /\ UNCHANGED <<cam, j, sample, pixel_color, stack, retval, trace>>
    /\ CFrame

\* the invocation on top of the stack returns value: to the invocation that
\* made the call, or, from the outermost one, to render, which does
\* pixel_color += value; ++sample
Return(value) ==
    /\ retval' = value
    /\ stack' = SubSeq(stack, 1, Len(stack) - 1)
    /\ IF Len(stack) = 1
       THEN /\ pixel_color' = VAdd(pixel_color, retval')
            /\ sample' = sample + 1
            /\ pc' = "sample"
       ELSE /\ pc' = "ray_return"
            /\ UNCHANGED <<pixel_color, sample>>

Top == stack[Len(stack)]

\* plausible slip: the attenuation of the hit is dropped
scattered_color_unattenuated(attenuation, value) == value

\* ray_color: attenuation * ray_color(scattered, depth-1, world)
scattered_color(attenuation, value) == VMul(attenuation, value)

\* ray_color: depth <= 0: return color(0,0,0)
RayColorExhausted ==
    /\ pc = "ray_color"
    /\ depth_exhausted(Top.depth)
    /\ Return(Black)
    /\ trace' = [trace EXCEPT !.evals = IF Len(stack) = 1 THEN @ + 1 ELSE @,
                              !.ending = "exhausted", !.last_ray = Top.r]
    /\ UNCHANGED <<cam, j, i, out>>
    /\ CFrame

\* ray_color: world.hit is false: return the background
RayColorMiss ==
    /\ pc = "ray_color"
    /\ ~depth_exhausted(Top.depth)
    /\ \E res \in HitTable[objects] :
         /\ ~res.ok
         /\ Return(SkyColor[Top.r.dir])
    /\ trace' = [trace EXCEPT !.hits = @ + 1,
                              !.evals = IF Len(stack) = 1 THEN @ + 1 ELSE @,
                              !.ending = "miss", !.last_ray = Top.r]
    /\ UNCHANGED <<cam, j, i, out>>
    /\ CFrame

\* ray_color: world.hit is true and scatter is false: return color(0,0,0)
RayColorAbsorbed ==
    /\ pc = "ray_color"
    /\ ~depth_exhausted(Top.depth)
    /\ \E res \in HitTable[objects] :
         /\ res.ok
         /\ \E sc \in ScatterOutcomes(res.rec.mat, res.rec) :
              /\ ~sc.ok
              /\ Return(Black)
    /\ trace' = [trace EXCEPT !.hits = @ + 1, !.scatters = @ + 1,
                              !.evals = IF Len(stack) = 1 THEN @ + 1 ELSE @,
                              !.ending = "absorbed", !.last_ray = Top.r]
    /\ UNCHANGED <<cam, j, i, out>>
    /\ CFrame

\* ray_color: world.hit is true and scatter is true: the recursive call
\* ray_color(scattered, depth-1, world)
RayColorScatter ==
    /\ pc = "ray_color"
    /\ ~depth_exhausted(Top.depth)
    /\ \E res \in HitTable[objects] :
         /\ res.ok
         /\ \E sc \in ScatterOutcomes(res.rec.mat, res.rec) :
              /\ sc.ok
              /\ stack' = Append([stack EXCEPT ![Len(stack)].attenuation = sc.attenuation],
                                 [r |-> sc.scattered, depth |-> recursive_depth(Top.depth),
                                  attenuation |-> Black])
    /\ trace' = [trace EXCEPT !.hits = @ + 1, !.scatters = @ + 1, !.calls = @ + 1,
                              !.path = Append(@, stack'[Len(stack)].attenuation),
                              !.last_ray = stack'[Len(stack')].r]
    /\ UNCHANGED <<cam, pc, j, i, sample, pixel_color, out, retval>>
    /\ CFrame

\* ray_color: the recursive call has returned: return attenuation * its value
RayColorReturn ==
    /\ pc = "ray_return"
    /\ Return(scattered_color(Top.attenuation, retval))
    /\ trace' = [trace EXCEPT !.evals = IF Len(stack) = 1 THEN @ + 1 ELSE @]
    /\ UNCHANGED <<cam, j, i, out>>
    /\ CFrame

Next ==
    \/ RenderInitialize
    \/ RenderHeader
    \/ ScanlineBegin
    \/ RenderDone
    \/ PixelBegin
    \/ ScanlineEnd
    \/ SampleBegin
    \/ WritePixel
    \/ RayColorExhausted
    \/ RayColorMiss
    \/ RayColorAbsorbed
    \/ RayColorScatter
    \/ RayColorReturn

Spec == CInit /\ [][Next]_vars

---------------------------------------------------------------------------
(* One ray_color call followed on its own: render, on a one-pixel image    *)
(* with one sample, has just called ray_color(r, max_depth, world); the    *)
(* call runs to its return and render to its end.                          *)

RayColorInit ==
    /\ m = MIdle
    /\ lcall = LIdle
    /\ objects \in Worlds
    /\ \E depth \in -1..MaxDepth, d \in RayDirections, p \in DiskSamples :
         /\ cam = initialize(camera(Q(1, 1), 1, 1, depth, 0, 0))
         /\ stack = <<[r |-> get_ray(cam, 0, 0, p, d), depth |-> cam.max_depth,
                       attenuation |-> Black]>>
         /\ trace = [NoTrace EXCEPT !.inits = 1, !.rays = 1, !.calls = 1,
                                    !.top_depth = depth,
                                    !.camera_ray = stack[1].r, !.last_ray = stack[1].r]
    /\ pc = "ray_color"
    /\ j = 0 /\ i = 0 /\ sample = 0
    /\ pixel_color = Black
    /\ out = <<>>
    /\ retval = Black

RayColorNext ==
    \/ RayColorExhausted
    \/ RayColorMiss
    \/ RayColorAbsorbed
    \/ RayColorScatter
    \/ RayColorReturn
    \/ WritePixel
    \/ ScanlineEnd
    \/ RenderDone

\* the program is sequential and keeps running: a step that can be taken is taken
RayColorSpec == RayColorInit /\ [][RayColorNext]_vars /\ WF_vars(RayColorNext)

---------------------------------------------------------------------------
(* Claims about ray_color, checked under RayColorSpec.                     *)

\* a ray_color call is in progress
InCall == pc \in {"ray_color", "ray_return"}

\* the bounce budget of the outermost call
Budget == IF trace.top_depth > 0 THEN trace.top_depth ELSE 0

\* the calls made so far by the outermost ray_color call stay within its depth
C3_CallBounds ==
    /\ trace.hits <= Budget
    /\ trace.scatters <= Budget
    /\ trace.calls <= Budget + 1
    /\ Len(stack) <= Budget + 1
    /\ \A k \in 1..Len(stack) : stack[k].depth = trace.top_depth - (k - 1)
    /\ pc = "ray_color" => trace.calls = Len(stack)

\* steps the call in progress can still take, at most
C3_Measure ==
    IF pc = "ray_color" THEN 2 * (IF Top.depth > 0 THEN Top.depth ELSE 0) + Len(stack) + 1
    ELSE IF pc = "ray_return" THEN Len(stack)
    ELSE 0

\* C3: one top-level call ray_color(r, max_depth, world) terminates; it makes
\* at most max_depth world.hit tests and at most max_depth scatter calls;
\* every invocation makes at most one recursive call, whose depth argument
\* is one less than its own.
C3_RayColorTerminatesWithinDepth ==
    /\ []C3_CallBounds
    /\ [][InCall => (C3_Measure' < C3_Measure /\ trace'.calls <= trace.calls + 1)]_vars
    /\ (InCall ~> ~InCall)

\* C3 witness: a call that used its whole budget of three bounces and has
\* returned to render
C3_Witness ==
    /\ pc = "sample"
    /\ trace.top_depth = 3
    /\ trace.hits = 3
    /\ trace.scatters = 3
    /\ trace.calls = 4
    /\ stack = <<>>

\* C4: an invocation with depth <= 0 returns (0,0,0) at once: no world.hit,
\* no scatter, no recursive call, whatever the world holds.
C4_ExhaustedDepthIsBlack ==
    [][(pc = "ray_color" /\ Top.depth <= 0) =>
          /\ retval' = VInt(0, 0, 0)
          /\ Len(stack') = Len(stack) - 1
          /\ trace'.hits = trace.hits
          /\ trace'.scatters = trace.scatters
          /\ trace'.calls = trace.calls
          /\ (Len(stack) = 1 => pixel_color' = pixel_color)]_vars

\* C4 witness: in the world of main, the invocation reached with depth 0
\* after max_depth bounces has returned black without a hit test of its own
C4_Witness ==
    /\ pc = "ray_return"
    /\ objects # <<>>
    /\ trace.top_depth - Len(stack) = 0
    /\ trace.calls = Len(stack) + 1
    /\ trace.hits = Len(stack)
    /\ retval = VInt(0, 0, 0)

---------------------------------------------------------------------------
(* Claims about render, checked under Spec.                                *)

\* C5: pixels are written in scanline order, rows top to bottom and columns
\* left to right, each once and after exactly samples_per_pixel
\* get_ray/ray_color evaluations of its own; an evaluation only ever belongs
\* to the first pixel not yet written; image_width * image_height pixels are
\* written in all.
C5_ScanlineOrder ==
    cam.derived.set =>
        LET width == cam.image_width
            height == cam.derived.image_height
            spp == cam.samples_per_pixel
        IN /\ \A k \in 1..Len(out) :
                /\ out[k].i = (k - 1) % width
                /\ out[k].j = (k - 1) \div width
                /\ out[k].j < height
                /\ out[k].evals = spp
           /\ Len(out) <= width * height
           /\ InCall =>
                /\ trace.ray_ij = <<Len(out) % width, Len(out) \div width>>
                /\ trace.evals < spp
           /\ pc \in {"sample", "ray_color", "ray_return"} =>
                trace.rays = Len(out) * spp + trace.evals + (IF InCall THEN 1 ELSE 0)
           /\ pc = "done" => Len(out) = width * height

\* C5 witness: a 2 x 2 image with two samples per pixel has been written
C5_Witness ==
    /\ pc = "done"
    /\ cam.image_width = 2
    /\ cam.derived.image_height = 2
    /\ cam.samples_per_pixel = 2
    /\ Len(out) = 4
    /\ out[2] = [i |-> 1, j |-> 0, samples |-> 2, evals |-> 2]
    /\ out[3] = [i |-> 0, j |-> 1, samples |-> 2, evals |-> 2]
    /\ trace.rays = 8

\* the state of the camera's state machine
CameraState ==
    IF ~cam.derived.set THEN "uninitialized"
    ELSE IF pc = "header" THEN "initialized"
    ELSE IF pc = "done" THEN "done"
    ELSE "rendering"

\* C6: the camera goes uninitialized -> initialized -> rendering -> done;
\* initialize runs exactly once and has completed before any get_ray call.
C6_InitializeOnceBeforeRays ==
    /\ [](/\ trace.inits <= 1
          /\ trace.rays > 0 => (trace.inits = 1 /\ cam.derived.set)
          /\ pc = "start" => (trace.inits = 0 /\ ~cam.derived.set)
          /\ pc # "start" => (trace.inits = 1 /\ cam.derived.set))
    /\ [][\/ CameraState' = CameraState
          \/ <<CameraState, CameraState'>> \in
                {<<"uninitialized", "initialized">>, <<"initialized", "rendering">>,
                 <<"rendering", "done">>}]_vars

\* C6 witness: the first ray of a render is being traced, after the one
\* initialize call
C6_Witness ==
    /\ pc = "ray_color"
    /\ trace.rays = 1
    /\ trace.inits = 1
    /\ cam.derived.set
    /\ CameraState = "rendering"

---------------------------------------------------------------------------
(* The value of ray_color against the iterative form: one loop along the   *)
(* path that multiplies the attenuations up.  Checked under RayColorSpec.  *)

\* the outermost ray_color call has returned to render
CallFinished == trace.calls > 0 /\ ~InCall

\* the loop: throughput starts at (1,1,1) and takes each attenuation in turn
RECURSIVE attenuation_product(_, _, _)
attenuation_product(path, k, throughput) ==
    IF k > Len(path) THEN throughput
    ELSE attenuation_product(path, k + 1, VMul(throughput, path[k]))

\* the value that ends the path: the background of the ray that missed,
\* black after an absorbing hit or with the depth used up
TerminalValue ==
    IF trace.ending = "miss" THEN sky_gradient(trace.last_ray) ELSE VInt(0, 0, 0)

\* what the iterative form returns for the path taken
IterativeRayColor == VMul(attenuation_product(trace.path, 1, VInt(1, 1, 1)), TerminalValue)

\* the value is the attenuation product of the scattering hits times the
\* terminal value, and the path has one attenuation per scatter that succeeded
C11_PathProduct ==
    CallFinished =>
        /\ retval = IterativeRayColor
        /\ trace.ending \in {"miss", "absorbed", "exhausted"}
        /\ Len(trace.path) = trace.calls - 1
        /\ trace.ending = "exhausted" => Len(trace.path) = Budget
        /\ trace.ending = "absorbed" => trace.scatters = Len(trace.path) + 1
        /\ trace.ending # "absorbed" => trace.scatters = Len(trace.path)

\* C11: the recursive ray_color returns what the iterative loop returns: the
\* component-wise product of the attenuations of the scattering hits along
\* the path times the terminal value (black after absorption or with the
\* depth used up, the sky gradient of the current ray on a miss); in an empty
\* world no material is called and, when the depth is positive, the value is
\* the sky gradient of the camera ray.
C11_RecursionIsAttenuationProduct ==
    /\ C11_PathProduct
    /\ (CallFinished /\ objects = <<>>) =>
          /\ trace.scatters = 0
          /\ trace.path = <<>>
          /\ trace.top_depth > 0 => retval = sky_gradient(trace.camera_ray)
          /\ trace.top_depth <= 0 => retval = VInt(0, 0, 0)

\* C11 witness: two scattering hits in the world of main, then a miss: the
\* value is the two attenuations times the background, and it is not black
C11_Witness ==
    /\ CallFinished
    /\ objects # <<>>
    /\ Len(trace.path) = 2
    /\ trace.path[1] # trace.path[2]
    /\ trace.ending = "miss"
    /\ retval = VMul(trace.path[1], VMul(trace.path[2], sky_gradient(trace.last_ray)))
    /\ retval # VInt(0, 0, 0)

\* C11 as first stated: an empty world yields the sky gradient of the camera
\* ray for every depth
C11_EmptyWorldAlwaysSky ==
    /\ C11_PathProduct
    /\ (CallFinished /\ objects = <<>>) =>
          /\ trace.scatters = 0
          /\ retval = sky_gradient(trace.camera_ray)

===========================================================================
